---- MODULE Spec2Model ----
(***************************************************************************)
(* pty-wrap (src/pty_wrap.py): the file-backed session store, the client   *)
(* operations start / read / send / status / stop / list, the double-fork  *)
(* daemonization and the PTY bridge loop, as one state machine.            *)
(*                                                                         *)
(* One client runs one operation at a time; its steps interleave with the  *)
(* steps of every daemon, every target program and the send helper.        *)
(* time.sleep() is a delay, not a synchronisation: a sleeping process may  *)
(* resume after any number of steps of the others.                         *)
(*                                                                         *)
(* Files are modelled as path -> inode maps plus per-inode data, so that a *)
(* descriptor held open across an unlink keeps addressing the old inode.   *)
(* The inode created by the k-th forked start (its FIFO) or by daemon k    *)
(* (pid file, log) is numbered k.                                          *)
(*                                                                         *)
(* Environment assumptions: a pid is not reused by the OS within a run; an *)
(* orphaned daemon is reaped as soon as it exits (no zombie answers the    *)
(* liveness probe); a signalled daemon dies at once (no handler is         *)
(* installed for SIGTERM).                                                 *)
(***************************************************************************)
EXTENDS Integers, Sequences, FiniteSets, TLC

\* ------------------------------------------------------------------ bounds
MaxOut == 2        \* bytes a target program writes to its terminal
MaxSends == 1      \* send invocations that reach the helper fork
MaxInputSends == 2 \* the same, in the specification of the input direction

\* ------------------------------------------------------- program constants
ChunkSize == 4096  \* os.read(fd, 4096)
SendPolls == 50    \* for _ in range(50)

\* values of uuid.uuid4().hex[:8]: the one a start draws in Spec, the two that
\* starts draw in SpecList
Uuids == { "1f0e3dad" }
UuidsList == { "1f0e3dad", "99e6b3e2" }
\* session ids a client may name: those, and ids no start ever produced
Ids == UuidsList
NoId == ""
\* process slots: slot k holds the processes the k-th forking start creates
Procs == { 1, 2 }
\* an absent file, and the content of a present one
NoFile == <<>>
File(content) == << content >>

\* argv as argparse.REMAINDER hands it to cmd_start
Argvs == { <<>>, <<"--">>, <<"cat", "-u">>, <<"--", "cat", "-u">> }
\* text arguments of send; two of them where the order of sends is observed
\* two programs, for starts whose command records differ
ArgvsCollide == { <<"cat", "-u">>, <<"sh">> }
Texts == { "y" }
TextsInput == { "y", "n" }
\* bytes a target may write: one valid ASCII byte, one byte invalid in UTF-8
OutBytes == { "a", "xff" }
\* the same where the text of the log is compared with the output: an ASCII byte
\* and the two bytes of the UTF-8 encoding of U+00E9
OutBytesOutput == { "a", "xc3", "xa9" }

\* ---------------------------------------------------------------- helpers
Min(a, b) == IF a < b THEN a ELSE b

IsPrefix(s, t) == Len(s) <= Len(t) /\ SubSeq(t, 1, Len(s)) = s

Take(s, n) == SubSeq(s, 1, Min(n, Len(s)))

Drop(s, n) == SubSeq(s, Min(n, Len(s)) + 1, Len(s))

\* str(os.getpid()): decimal digits, most significant first
RECURSIVE Str(_)
Str(n) == IF n < 10 THEN <<n>> ELSE Str(n \div 10) \o <<n % 10>>

\* int(text): the value of a digit string; the empty string is a ValueError
RECURSIVE IntOf(_)
IntOf(s) == IF s = <<>> THEN 0 ELSE IntOf(SubSeq(s, 1, Len(s) - 1)) * 10 + s[Len(s)]

\* " ".join(program)
RECURSIVE Join(_)
Join(p) == IF p = <<>> THEN <<>>
           ELSE IF Len(p) = 1 THEN <<p[1]>>
           ELSE <<p[1], " ">> \o Join(Tail(p))

\* program[1:] when program[0] == "--"
StripDashes(argv) == IF argv # <<>> /\ argv[1] = "--" THEN Tail(argv) ELSE argv

\* bytes.decode("utf-8", errors="replace") of a byte that stands alone: an ASCII
\* byte is itself, a byte that is never valid (xff), a lead byte without its
\* continuation (xc3) and a continuation without its lead (xa9) are U+FFFD
DecodeByte(b) == IF b \in { "xff", "xc3", "xa9" } THEN "ufffd" ELSE b

\* bytes.decode("utf-8", errors="replace") of one chunk: xc3 xa9 side by side are
\* the one character U+00E9
RECURSIVE Decode(_)
Decode(data) ==
    IF data = <<>> THEN <<>>
    ELSE IF Len(data) >= 2 /\ data[1] = "xc3" /\ data[2] = "xa9"
         THEN << "u00e9" >> \o Decode(SubSeq(data, 3, Len(data)))
    ELSE << DecodeByte(data[1]) >> \o Decode(Tail(data))

\* "\n[pty-wrap: process exited]\n"
ExitMarker == << "\n", "[pty-wrap: process exited]", "\n" >>

\* InputData without the newline
InputDataNoNewline(text) == << text >>

\* input_data = args.input + "\n", encoded
InputData(text) == << text, "\n" >>

\* the terminal's echo of input bytes: a newline is echoed as CR LF
RECURSIVE TtyEcho(_)
TtyEcho(data) ==
    IF data = <<>> THEN <<>>
    ELSE (IF Head(data) = "\n" THEN << "\r", "\n" >> ELSE << Head(data) >>)
         \o TtyEcho(Tail(data))

\* os.getpid() in the daemon of slot k
PidOf(k) == 4710 + k

VARIABLES
    rootExists,   \* SESSIONS_DIR exists
    dir,          \* [Ids -> BOOLEAN]: the session directory exists
    cmdFile,      \* [Ids -> File(content) | NoFile]: <dir>/cmd
    fifoPath,     \* [Ids -> 0 or a slot]: inode of <dir>/input.fifo, 0 absent
    pidPath,      \* [Ids -> 0 or a slot]: inode of <dir>/pid, 0 absent
    outPath,      \* [Ids -> 0 or a slot]: inode of <dir>/output.txt, 0 absent
    pidData,      \* [Procs -> digits]: content of pid-file inode k
    logData,      \* [Procs -> tokens]: content of log inode k
    fifoBuf,      \* [Procs -> bytes]: pipe buffer of FIFO inode k
    fifoWriters,  \* [Procs -> Nat]: write ends open on FIFO inode k
    fifoHup,      \* [Procs -> BOOLEAN]: a writer has connected and left
    nstarts,      \* forks done by start so far
    dpc,          \* [Procs -> position of daemon k in cmd_start/run_wrapper]
    did,          \* [Procs -> session id of daemon k, NoId unused]
    dPid,         \* [Procs -> inode daemon k holds open for the pid file]
    dOut,         \* [Procs -> inode daemon k holds open as out_f]
    dIn,          \* [Procs -> inode daemon k holds open as in_fd]
    ready,        \* [Procs -> SUBSET {"master","in"}]: select()'s result
    child,        \* [Procs -> "none" | "running" | "exited"]: the target
    reaped,       \* [Procs -> BOOLEAN]: waitpid(pid, WNOHANG) returned the child
    produced,     \* [Procs -> bytes]: everything the target wrote so far
    ptyOut,       \* [Procs -> bytes]: written by the target, not yet read
    ptyIn,        \* [Procs -> bytes]: everything written to master_fd
    cpc,          \* position of the client inside its operation
    cid,          \* session id the running operation works on
    carg,         \* the operation's argument (send's text)
    cpid,         \* pid parsed from the pid file (send, stop)
    ck,           \* start: the process slot of the forked child
    polls,        \* send: iterations of the waitpid loop done
    hpc,          \* send: the helper process
    hfd,          \* send: FIFO inode the helper holds open for writing
    nsends,       \* helpers forked so far
    scan,         \* stop: entries rmtree's scandir returned
    sigs,         \* stop: signals delivered so far by this invocation
    lastOp,       \* the operation running, else the last one completed
    lastId,       \* its session id
    lastRes,      \* what it printed / how it failed; "pending" while it runs
    seenExited,   \* [Ids -> BOOLEAN]: a status of the id has printed exited
    acked         \* [Ids -> texts]: the texts of the sends that printed ok, in order

fsVars == << rootExists, dir, cmdFile, fifoPath, pidPath, outPath, pidData,
             logData, fifoBuf, fifoWriters, fifoHup >>
procVars == << nstarts, dpc, did, dPid, dOut, dIn, ready, child, reaped,
               produced, ptyOut, ptyIn >>
clientVars == << cpc, cid, carg, cpid, ck, polls, hpc, hfd, nsends, scan, sigs >>
obsVars == << lastOp, lastId, lastRes, seenExited, acked >>
vars == << fsVars, procVars, clientVars, obsVars >>

Init ==
    /\ rootExists = FALSE
    /\ dir = [i \in Ids |-> FALSE]
    /\ cmdFile = [i \in Ids |-> NoFile]
    /\ fifoPath = [i \in Ids |-> 0]
    /\ pidPath = [i \in Ids |-> 0]
    /\ outPath = [i \in Ids |-> 0]
    /\ pidData = [k \in Procs |-> <<>>]
    /\ logData = [k \in Procs |-> <<>>]
    /\ fifoBuf = [k \in Procs |-> <<>>]
    /\ fifoWriters = [k \in Procs |-> 0]
    /\ fifoHup = [k \in Procs |-> FALSE]
    /\ nstarts = 0
    /\ dpc = [k \in Procs |-> "none"]
    /\ did = [k \in Procs |-> NoId]
    /\ dPid = [k \in Procs |-> 0]
    /\ dOut = [k \in Procs |-> 0]
    /\ dIn = [k \in Procs |-> 0]
    /\ ready = [k \in Procs |-> {}]
    /\ child = [k \in Procs |-> "none"]
    /\ reaped = [k \in Procs |-> FALSE]
    /\ produced = [k \in Procs |-> <<>>]
    /\ ptyOut = [k \in Procs |-> <<>>]
    /\ ptyIn = [k \in Procs |-> <<>>]
    /\ cpc = "idle"
    /\ cid = NoId
    /\ carg = ""
    /\ cpid = 0
    /\ ck = 0
    /\ polls = 0
    /\ hpc = "none"
    /\ hfd = 0
    /\ nsends = 0
    /\ scan = {}
    /\ sigs = <<>>
    /\ lastOp = "none"
    /\ lastId = NoId
    /\ lastRes = "none"
    /\ seenExited = [i \in Ids |-> FALSE]
    /\ acked = [i \in Ids |-> <<>>]

\* ------------------------------------------------------------- processes
\* the daemon (grandchild) of start k exists and has not terminated
DaemonAlive(k) ==
    dpc[k] \in { "daemon", "pidopen", "wrapper", "openlog", "openfifo", "select",
                 "master", "input", "wait", "drain", "finally", "closing",
                 "exiting" }

\* the daemon holds master_fd open (from pty.openpty() to os.close(master_fd))
MasterOpen(k) ==
    dpc[k] \in { "openlog", "openfifo", "select", "master", "input", "wait",
                 "drain", "finally", "closing" }

\* os.kill(pid, sig) finds a process: otherwise ProcessLookupError
ProcessExists(pid) == \E k \in Procs : PidOf(k) = pid /\ DaemonAlive(k)

\* some process holds FIFO inode f open for reading
HasReader(f) == \E k \in Procs : DaemonAlive(k) /\ dIn[k] = f

\* with open(pid_file) as f: pid = int(f.read().strip())
\* << "pid", n >>, or the exception raised
ReadPid(id) ==
    IF pidPath[id] = 0 THEN << "FileNotFoundError" >>
    ELSE IF pidData[pidPath[id]] = <<>> THEN << "ValueError" >>
    ELSE << "pid", IntOf(pidData[pidPath[id]]) >>

\* select() reports master_fd readable: bytes pending, or the slave side closed
MasterReadable(k) == ptyOut[k] # <<>> \/ child[k] = "exited"

\* select() reports in_fd readable: bytes pending, or end-of-file after the last
\* writer has left
InReadable(k) ==
    dIn[k] # 0 /\ (fifoBuf[dIn[k]] # <<>> \/ (fifoHup[dIn[k]] /\ fifoWriters[dIn[k]] = 0))

\* the process is gone: every descriptor it held is closed
Terminate(k, how) ==
    /\ dpc' = [dpc EXCEPT ![k] = how]
    /\ dPid' = [dPid EXCEPT ![k] = 0]
    /\ dOut' = [dOut EXCEPT ![k] = 0]
    /\ dIn' = [dIn EXCEPT ![k] = 0]
    /\ ready' = [ready EXCEPT ![k] = {}]

\* -------------------------------------------------- cmd_start, daemon side
\* first child: os.setsid(); os.fork(); os._exit(0)
DaemonFork(k) ==
    /\ dpc[k] = "child1"
    /\ dpc' = [dpc EXCEPT ![k] = "daemon"]
    /\ UNCHANGED << fsVars, clientVars, obsVars, nstarts, did, dPid, dOut, dIn,
                    ready, child, reaped, produced, ptyOut, ptyIn >>

\* open(pid_file, "w"): creates or truncates; FileNotFoundError without the directory
DaemonOpenPid(k) ==
    /\ dpc[k] = "daemon"
    /\ IF ~dir[did[k]]
       THEN /\ Terminate(k, "crashed")
            /\ UNCHANGED << pidPath, pidData >>
       ELSE LET ino == IF pidPath[did[k]] = 0 THEN k ELSE pidPath[did[k]] IN
            /\ pidPath' = [pidPath EXCEPT ![did[k]] = ino]
            /\ pidData' = [pidData EXCEPT ![ino] = <<>>]
            /\ dPid' = [dPid EXCEPT ![k] = ino]
            /\ dpc' = [dpc EXCEPT ![k] = "pidopen"]
            /\ UNCHANGED << dOut, dIn, ready >>
    /\ UNCHANGED << rootExists, dir, cmdFile, fifoPath, outPath, logData, fifoBuf,
                    fifoWriters, fifoHup, clientVars, obsVars, nstarts, did, child,
                    reaped, produced, ptyOut, ptyIn >>

\* f.write(str(os.getpid())) and the close that flushes it
DaemonWritePid(k) ==
    /\ dpc[k] = "pidopen"
    /\ pidData' = [pidData EXCEPT ![dPid[k]] = Str(PidOf(k))]
    /\ dPid' = [dPid EXCEPT ![k] = 0]
    /\ dpc' = [dpc EXCEPT ![k] = "wrapper"]
    /\ UNCHANGED << rootExists, dir, cmdFile, fifoPath, pidPath, outPath, logData,
                    fifoBuf, fifoWriters, fifoHup, clientVars, obsVars, nstarts, did,
                    dOut, dIn, ready, child, reaped, produced, ptyOut, ptyIn >>

\* ------------------------------------------------------------ run_wrapper
\* pty.openpty(); os.fork(): the target runs on the slave side
WrapperFork(k) ==
    /\ dpc[k] = "wrapper"
    /\ child' = [child EXCEPT ![k] = "running"]
    /\ dpc' = [dpc EXCEPT ![k] = "openlog"]
    /\ UNCHANGED << fsVars, clientVars, obsVars, nstarts, did, dPid, dOut, dIn,
                    ready, reaped, produced, ptyOut, ptyIn >>

\* out_f = open(output_file, "a"): creates the log or opens it for appending
WrapperOpenLog(k) ==
    /\ dpc[k] = "openlog"
    /\ IF ~dir[did[k]]
       THEN /\ Terminate(k, "crashed")
            /\ UNCHANGED outPath
       ELSE LET ino == IF outPath[did[k]] = 0 THEN k ELSE outPath[did[k]] IN
            /\ outPath' = [outPath EXCEPT ![did[k]] = ino]
            /\ dOut' = [dOut EXCEPT ![k] = ino]
            /\ dpc' = [dpc EXCEPT ![k] = "openfifo"]
            /\ UNCHANGED << dPid, dIn, ready >>
    /\ UNCHANGED << rootExists, dir, cmdFile, fifoPath, pidPath, pidData, logData,
                    fifoBuf, fifoWriters, fifoHup, clientVars, obsVars, nstarts, did,
                    child, reaped, produced, ptyOut, ptyIn >>

\* WrapperOpenFifo without os.O_NONBLOCK: the open waits for a writer's open
WrapperOpenFifoBlocking(k) ==
    /\ dpc[k] = "openfifo"
    /\ IF fifoPath[did[k]] = 0
       THEN Terminate(k, "crashed")
       ELSE /\ hpc = "open" /\ fifoPath[cid] = fifoPath[did[k]]
            /\ dIn' = [dIn EXCEPT ![k] = fifoPath[did[k]]]
            /\ dpc' = [dpc EXCEPT ![k] = "select"]
            /\ UNCHANGED << dPid, dOut, ready >>
    /\ UNCHANGED << fsVars, clientVars, obsVars, nstarts, did, child, reaped,
                    produced, ptyOut, ptyIn >>

\* in_fd = os.open(input_fifo, os.O_RDONLY | os.O_NONBLOCK)
WrapperOpenFifo(k) ==
    /\ dpc[k] = "openfifo"
    /\ IF fifoPath[did[k]] = 0
       THEN Terminate(k, "crashed")
       ELSE /\ dIn' = [dIn EXCEPT ![k] = fifoPath[did[k]]]
            /\ dpc' = [dpc EXCEPT ![k] = "select"]
            /\ UNCHANGED << dPid, dOut, ready >>
    /\ UNCHANGED << fsVars, clientVars, obsVars, nstarts, did, child, reaped,
                    produced, ptyOut, ptyIn >>

\* ready, _, _ = select.select([master_fd, in_fd], [], [], 0.1)
BridgeSelect(k) ==
    /\ dpc[k] = "select"
    /\ LET r == (IF MasterReadable(k) THEN {"master"} ELSE {})
                \cup (IF InReadable(k) THEN {"in"} ELSE {}) IN
       /\ ready' = [ready EXCEPT ![k] = r]
       /\ dpc' = [dpc EXCEPT ![k] = IF "master" \in r THEN "master"
                                    ELSE IF "in" \in r THEN "input" ELSE "wait"]
    /\ UNCHANGED << fsVars, clientVars, obsVars, nstarts, did, dPid, dOut, dIn,
                    child, reaped, produced, ptyOut, ptyIn >>

\* LogAppend as if each write replaced the file's content
LogAppendRewrites(k, data) == [logData EXCEPT ![dOut[k]] = Decode(data)]

\* out_f.write(data.decode("utf-8", errors="replace")); out_f.flush()
LogAppend(k, data) == [logData EXCEPT ![dOut[k]] = @ \o Decode(data)]

\* fd == master_fd: data = os.read(master_fd, 4096); no data or OSError: EOFError
BridgeMaster(k) ==
    /\ dpc[k] = "master"
    /\ LET data == Take(ptyOut[k], ChunkSize) IN
       IF data # <<>>
       THEN /\ logData' = LogAppend(k, data)
            /\ ptyOut' = [ptyOut EXCEPT ![k] = Drop(@, ChunkSize)]
            /\ dpc' = [dpc EXCEPT ![k] = IF "in" \in ready[k] THEN "input" ELSE "wait"]
       ELSE /\ dpc' = [dpc EXCEPT ![k] = "finally"]
            /\ UNCHANGED << logData, ptyOut >>
    /\ ready' = [ready EXCEPT ![k] = {}]
    /\ UNCHANGED << rootExists, dir, cmdFile, fifoPath, pidPath, outPath, pidData,
                    fifoBuf, fifoWriters, fifoHup, clientVars, obsVars, nstarts, did,
                    dPid, dOut, dIn, child, reaped, produced, ptyIn >>

\* BridgeInput that writes the forwarded chunk to the log as well
BridgeInputLogs(k, echo) ==
    /\ dpc[k] = "input"
    /\ LET data == Take(fifoBuf[dIn[k]], ChunkSize) IN
       /\ fifoBuf' = [fifoBuf EXCEPT ![dIn[k]] = Drop(@, ChunkSize)]
       /\ ptyIn' = [ptyIn EXCEPT ![k] = IF child[k] = "running" THEN @ \o data ELSE @]
       /\ ptyOut' = [ptyOut EXCEPT ![k] =
                        IF child[k] = "running" /\ echo THEN @ \o TtyEcho(data) ELSE @]
       /\ logData' = [logData EXCEPT ![dOut[k]] = @ \o data]
    /\ dpc' = [dpc EXCEPT ![k] = "wait"]
    /\ ready' = [ready EXCEPT ![k] = {}]
    /\ UNCHANGED << rootExists, dir, cmdFile, fifoPath, pidPath, outPath, pidData,
                    fifoWriters, fifoHup, clientVars, obsVars, nstarts, did,
                    dPid, dOut, dIn, child, reaped, produced >>

\* BridgeInput with a zero-length read of in_fd treated like one of master_fd
BridgeInputEofEnds(k, echo) ==
    /\ dpc[k] = "input"
    /\ LET data == Take(fifoBuf[dIn[k]], ChunkSize) IN
       /\ fifoBuf' = [fifoBuf EXCEPT ![dIn[k]] = Drop(@, ChunkSize)]
       /\ ptyIn' = [ptyIn EXCEPT ![k] = IF child[k] = "running" THEN @ \o data ELSE @]
       /\ ptyOut' = [ptyOut EXCEPT ![k] =
                        IF child[k] = "running" /\ echo THEN @ \o TtyEcho(data) ELSE @]
       /\ dpc' = [dpc EXCEPT ![k] = IF data = <<>> THEN "finally" ELSE "wait"]
    /\ ready' = [ready EXCEPT ![k] = {}]
    /\ UNCHANGED << rootExists, dir, cmdFile, fifoPath, pidPath, outPath, pidData,
                    logData, fifoWriters, fifoHup, clientVars, obsVars, nstarts, did,
                    dPid, dOut, dIn, child, reaped, produced >>

\* fd == in_fd: data = os.read(in_fd, 4096); if data: os.write(master_fd, data);
\* an OSError of either call is swallowed. The terminal pty.openpty() made echoes
\* what arrives on the master back to the master while its ECHO flag is set (it
\* is set at first, the target may clear it): echo is the flag at this moment.
BridgeInput(k, echo) ==
    /\ dpc[k] = "input"
    /\ LET data == Take(fifoBuf[dIn[k]], ChunkSize) IN
       /\ fifoBuf' = [fifoBuf EXCEPT ![dIn[k]] = Drop(@, ChunkSize)]
       /\ ptyIn' = [ptyIn EXCEPT ![k] = IF child[k] = "running" THEN @ \o data ELSE @]
       /\ ptyOut' = [ptyOut EXCEPT ![k] =
                        IF child[k] = "running" /\ echo THEN @ \o TtyEcho(data) ELSE @]
    /\ dpc' = [dpc EXCEPT ![k] = "wait"]
    /\ ready' = [ready EXCEPT ![k] = {}]
    /\ UNCHANGED << rootExists, dir, cmdFile, fifoPath, pidPath, outPath, pidData,
                    logData, fifoWriters, fifoHup, clientVars, obsVars, nstarts, did,
                    dPid, dOut, dIn, child, reaped, produced >>

\* result = os.waitpid(pid, os.WNOHANG); if result[0] != 0: drain_pty(...); break
BridgeWait(k) ==
    /\ dpc[k] = "wait"
    /\ IF child[k] = "exited"
       THEN /\ reaped' = [reaped EXCEPT ![k] = TRUE]
            /\ dpc' = [dpc EXCEPT ![k] = "drain"]
       ELSE /\ dpc' = [dpc EXCEPT ![k] = "select"]
            /\ UNCHANGED reaped
    /\ UNCHANGED << fsVars, clientVars, obsVars, nstarts, did, dPid, dOut, dIn,
                    ready, child, produced, ptyOut, ptyIn >>

\* DrainPty whose end terminates the daemon at once, without the finally block
DrainPtyExits(k) ==
    /\ dpc[k] = "drain"
    /\ LET data == Take(ptyOut[k], ChunkSize) IN
       IF data # <<>>
       THEN /\ logData' = LogAppend(k, data)
            /\ ptyOut' = [ptyOut EXCEPT ![k] = Drop(@, ChunkSize)]
            /\ UNCHANGED << dpc, dPid, dOut, dIn, ready >>
       ELSE /\ Terminate(k, "done")
            /\ UNCHANGED << logData, ptyOut >>
    /\ UNCHANGED << rootExists, dir, cmdFile, fifoPath, pidPath, outPath, pidData,
                    fifoBuf, fifoWriters, fifoHup, clientVars, obsVars, nstarts, did,
                    child, reaped, produced, ptyIn >>

\* drain_pty: one iteration of its loop; it breaks when select() times out, and
\* when the read returns nothing or fails
DrainPty(k) ==
    /\ dpc[k] = "drain"
    /\ LET data == Take(ptyOut[k], ChunkSize) IN
       IF data # <<>>
       THEN /\ logData' = LogAppend(k, data)
            /\ ptyOut' = [ptyOut EXCEPT ![k] = Drop(@, ChunkSize)]
            /\ UNCHANGED dpc
       ELSE /\ dpc' = [dpc EXCEPT ![k] = "finally"]
            /\ UNCHANGED << logData, ptyOut >>
    /\ UNCHANGED << rootExists, dir, cmdFile, fifoPath, pidPath, outPath, pidData,
                    fifoBuf, fifoWriters, fifoHup, clientVars, obsVars, nstarts, did,
                    dPid, dOut, dIn, ready, child, reaped, produced, ptyIn >>

\* Finalize without out_f.write(...): the log is closed as it is
FinalizeNoMarker(k) ==
    /\ dpc[k] = "finally"
    /\ dOut' = [dOut EXCEPT ![k] = 0]
    /\ dpc' = [dpc EXCEPT ![k] = "closing"]
    /\ UNCHANGED << fsVars, clientVars, obsVars, nstarts, did, dPid, dIn, ready,
                    child, reaped, produced, ptyOut, ptyIn >>

\* finally: out_f.write("\n[pty-wrap: process exited]\n"); out_f.close()
Finalize(k) ==
    /\ dpc[k] = "finally"
    /\ logData' = [logData EXCEPT ![dOut[k]] = @ \o ExitMarker]
    /\ dOut' = [dOut EXCEPT ![k] = 0]
    /\ dpc' = [dpc EXCEPT ![k] = "closing"]
    /\ UNCHANGED << rootExists, dir, cmdFile, fifoPath, pidPath, outPath, pidData,
                    fifoBuf, fifoWriters, fifoHup, clientVars, obsVars, nstarts, did,
                    dPid, dIn, ready, child, reaped, produced, ptyOut, ptyIn >>

\* finally, after the log is closed: os.close(in_fd); os.close(master_fd)
CloseFds(k) ==
    /\ dpc[k] = "closing"
    /\ dIn' = [dIn EXCEPT ![k] = 0]
    /\ dpc' = [dpc EXCEPT ![k] = "exiting"]
    /\ UNCHANGED << fsVars, clientVars, obsVars, nstarts, did, dPid, dOut, ready,
                    child, reaped, produced, ptyOut, ptyIn >>

\* DaemonExit with a shutil.rmtree(session_dir) after run_wrapper
DaemonExitCleansUp(k) ==
    /\ dpc[k] = "exiting"
    /\ dpc' = [dpc EXCEPT ![k] = "done"]
    /\ dir' = [dir EXCEPT ![did[k]] = FALSE]
    /\ cmdFile' = [cmdFile EXCEPT ![did[k]] = NoFile]
    /\ fifoPath' = [fifoPath EXCEPT ![did[k]] = 0]
    /\ pidPath' = [pidPath EXCEPT ![did[k]] = 0]
    /\ outPath' = [outPath EXCEPT ![did[k]] = 0]
    /\ UNCHANGED << rootExists, pidData, logData, fifoBuf, fifoWriters, fifoHup,
                    clientVars, obsVars, nstarts, did, dPid, dOut, dIn, ready, child,
                    reaped, produced, ptyOut, ptyIn >>

\* run_wrapper, cmd_start and main return: the daemon exits, nothing is removed
DaemonExit(k) ==
    /\ dpc[k] = "exiting"
    /\ dpc' = [dpc EXCEPT ![k] = "done"]
    /\ UNCHANGED << fsVars, clientVars, obsVars, nstarts, did, dPid, dOut, dIn,
                    ready, child, reaped, produced, ptyOut, ptyIn >>

\* ------------------------------------------------------ the target program
\* the program given to os.execvp writes a byte to its terminal
ChildWrite(k, b) ==
    /\ child[k] = "running"
    /\ MasterOpen(k)
    /\ Len(produced[k]) < MaxOut
    /\ produced' = [produced EXCEPT ![k] = Append(@, b)]
    /\ ptyOut' = [ptyOut EXCEPT ![k] = Append(@, b)]
    /\ UNCHANGED << fsVars, clientVars, obsVars, nstarts, dpc, did, dPid, dOut, dIn,
                    ready, child, reaped, ptyIn >>

\* the program exits (or os.execvp fails); it is the only holder of the slave
\* side, which closes
ChildExit(k) ==
    /\ child[k] = "running"
    /\ child' = [child EXCEPT ![k] = "exited"]
    /\ UNCHANGED << fsVars, clientVars, obsVars, nstarts, dpc, did, dPid, dOut, dIn,
                    ready, reaped, produced, ptyOut, ptyIn >>

\* ------------------------------------------------------------ the client
\* an operation of several steps begins: nothing printed yet
Begin(op, id) ==
    /\ lastOp' = op
    /\ lastId' = id
    /\ lastRes' = "pending"

\* an operation ends: what it printed or how it failed
Done(op, id, res) ==
    /\ lastOp' = op
    /\ lastId' = id
    /\ lastRes' = res
    /\ cpc' = "idle"

\* StartNoCommand with the check of the command after os.makedirs
StartNoCommandLate(argv) ==
    /\ cpc = "idle"
    /\ StripDashes(argv) = <<>>
    /\ rootExists' = TRUE
    /\ \E id \in Ids : dir' = [dir EXCEPT ![id] = TRUE]
    /\ Done("start", NoId, "err_nocmd")
    /\ UNCHANGED << cmdFile, fifoPath, pidPath, outPath, pidData, logData, fifoBuf,
                    fifoWriters, fifoHup, procVars, cid, carg, cpid, ck, polls, hpc,
                    hfd, nsends, scan, sigs, seenExited, acked >>

\* cmd_start: sys.exit("Error: No command specified")
StartNoCommand(argv) ==
    /\ cpc = "idle"
    /\ StripDashes(argv) = <<>>
    /\ Done("start", NoId, "err_nocmd")
    /\ UNCHANGED << fsVars, procVars, cid, carg, cpid, ck, polls, hpc, hfd, nsends,
                    scan, sigs, seenExited, acked >>

\* cmd_start with an id whose directory holds a FIFO: os.makedirs(exist_ok=True)
\* passes, the command record is rewritten, os.mkfifo raises FileExistsError
StartCollide(argv, id) ==
    /\ cpc = "idle"
    /\ StripDashes(argv) # <<>>
    /\ fifoPath[id] # 0
    /\ cmdFile' = [cmdFile EXCEPT ![id] = File(Join(StripDashes(argv)))]
    /\ Done("start", id, "crash")
    /\ UNCHANGED << rootExists, dir, fifoPath, pidPath, outPath, pidData, logData,
                    fifoBuf, fifoWriters, fifoHup, procVars, cid, carg, cpid, ck,
                    polls, hpc, hfd, nsends, scan, sigs, seenExited, acked >>

\* cmd_start up to os.fork(): directory, command record, FIFO, first child
StartFork(argv, id) ==
    /\ cpc = "idle"
    /\ StripDashes(argv) # <<>>
    /\ fifoPath[id] = 0
    /\ nstarts < Cardinality(Procs)
    /\ LET k == nstarts + 1 IN
       /\ rootExists' = TRUE
       /\ dir' = [dir EXCEPT ![id] = TRUE]
       /\ cmdFile' = [cmdFile EXCEPT ![id] = File(Join(StripDashes(argv)))]
       /\ fifoPath' = [fifoPath EXCEPT ![id] = k]
       /\ nstarts' = k
       /\ dpc' = [dpc EXCEPT ![k] = "child1"]
       /\ did' = [did EXCEPT ![k] = id]
       /\ ck' = k
    /\ cid' = id
    /\ cpc' = "start_sleep"
    /\ Begin("start", id)
    /\ UNCHANGED << pidPath, outPath, pidData, logData, fifoBuf, fifoWriters, fifoHup,
                    dPid, dOut, dIn, ready, child, reaped, produced, ptyOut, ptyIn,
                    carg, cpid, polls, hpc, hfd, nsends, scan, sigs, seenExited, acked >>

\* parent of the fork: time.sleep(0.2); print(f"session: {session_id}")
StartReturn ==
    /\ cpc = "start_sleep"
    /\ Done("start", cid, "session")
    /\ UNCHANGED << fsVars, procVars, cid, carg, cpid, ck, polls, hpc, hfd, nsends,
                    scan, sigs, seenExited, acked >>

\* cmd_read: the whole log, or the not-found error when output.txt is missing
ReadContent(id) == IF outPath[id] = 0 THEN NoFile ELSE File(logData[outPath[id]])

Read(id) ==
    /\ cpc = "idle"
    /\ Done("read", id, IF ReadContent(id) = NoFile THEN "err_notfound" ELSE "ok")
    /\ UNCHANGED << fsVars, procVars, cid, carg, cpid, ck, polls, hpc, hfd, nsends,
                    scan, sigs, seenExited, acked >>

\* StatusOf without the os.path.exists(session_dir) test
StatusOfNoDirTest(id) ==
    IF ReadPid(id)[1] # "pid" THEN "exited"
    ELSE IF ProcessExists(ReadPid(id)[2]) THEN "running"
    ELSE "exited"

\* cmd_status: what it prints
StatusOf(id) ==
    IF ~dir[id] THEN "not_found"
    ELSE IF ReadPid(id)[1] # "pid" THEN "exited"
    ELSE IF ProcessExists(ReadPid(id)[2]) THEN "running"
    ELSE "exited"

Status(id) ==
    /\ cpc = "idle"
    /\ Done("status", id, StatusOf(id))
    /\ seenExited' = [seenExited EXCEPT ![id] = @ \/ StatusOf(id) = "exited"]
    /\ UNCHANGED << fsVars, procVars, cid, carg, cpid, ck, polls, hpc, hfd, nsends,
                    scan, sigs, acked >>

\* ListStatus without os.kill(pid, 0)
ListStatusNoKill(id) == IF ReadPid(id)[1] # "pid" THEN "exited" ELSE "running"

\* cmd_list: the status column of one row
ListStatus(id) ==
    IF ReadPid(id)[1] # "pid" THEN "exited"
    ELSE IF ProcessExists(ReadPid(id)[2]) THEN "running"
    ELSE "exited"

\* cmd_list: the command column of one row, f.read().strip() or ""
RECURSIVE Strip(_)
Strip(s) == IF s = <<>> THEN s
            ELSE IF Head(s) = " " THEN Strip(Tail(s))
            ELSE IF s[Len(s)] = " " THEN Strip(SubSeq(s, 1, Len(s) - 1))
            ELSE s

ListCmd(id) == IF cmdFile[id] = NoFile THEN <<>> ELSE Strip(cmdFile[id][1])

\* cmd_list: one row per entry of os.listdir(SESSIONS_DIR)
ListRows ==
    IF ~rootExists THEN {}
    ELSE { << id, ListStatus(id), ListCmd(id) >> : id \in { i \in Ids : dir[i] } }

List ==
    /\ cpc = "idle"
    /\ Done("list", NoId, "ok")
    /\ UNCHANGED << fsVars, procVars, cid, carg, cpid, ck, polls, hpc, hfd, nsends,
                    scan, sigs, seenExited, acked >>

\* SendProbe without os.kill(pid, 0)
SendProbeNoKill(id) == ReadPid(id)[1] = "pid"

\* cmd_send: the liveness probe let the send through
SendProbe(id) == ReadPid(id)[1] = "pid" /\ ProcessExists(ReadPid(id)[2])

\* cmd_send: sys.exit("Error: Session ... not found")
SendNotFound(id, text) ==
    /\ cpc = "idle"
    /\ ~dir[id]
    /\ Done("send", id, "err_notfound")
    /\ UNCHANGED << fsVars, procVars, cid, carg, cpid, ck, polls, hpc, hfd, nsends,
                    scan, sigs, seenExited, acked >>

\* cmd_send: sys.exit("Error: Session ... is not running")
SendNotRunning(id, text) ==
    /\ cpc = "idle"
    /\ dir[id]
    /\ ~SendProbe(id)
    /\ Done("send", id, "err_notrunning")
    /\ UNCHANGED << fsVars, procVars, cid, carg, cpid, ck, polls, hpc, hfd, nsends,
                    scan, sigs, seenExited, acked >>

\* cmd_send: child_pid = os.fork()
SendFork(id, text) ==
    /\ cpc = "idle"
    /\ dir[id]
    /\ SendProbe(id)
    /\ nsends' = nsends + 1
    /\ hpc' = "open"
    /\ polls' = 0
    /\ cid' = id
    /\ carg' = text
    /\ cpc' = "send_poll"
    /\ Begin("send", id)
    /\ UNCHANGED << fsVars, procVars, cpid, ck, hfd, scan, sigs, seenExited, acked >>

\* the helper's write end closes
CloseWriter(f) ==
    /\ fifoWriters' = [fifoWriters EXCEPT ![f] = @ - 1]
    /\ fifoHup' = [fifoHup EXCEPT ![f] = TRUE]

\* helper: fd = os.open(input_fifo, os.O_WRONLY) blocks until the FIFO has a
\* reader; without the FIFO it raises and the helper does os._exit(1)
HelperOpen ==
    /\ hpc = "open"
    /\ IF fifoPath[cid] = 0
       THEN /\ hpc' = "exit1"
            /\ UNCHANGED << hfd, fifoWriters >>
       ELSE /\ HasReader(fifoPath[cid])
            /\ hfd' = fifoPath[cid]
            /\ fifoWriters' = [fifoWriters EXCEPT ![fifoPath[cid]] = @ + 1]
            /\ hpc' = "write"
    /\ UNCHANGED << rootExists, dir, cmdFile, fifoPath, pidPath, outPath, pidData,
                    logData, fifoBuf, fifoHup, procVars, cpc, cid, carg, cpid, ck,
                    polls, nsends, scan, sigs, obsVars >>

\* helper: os.write(fd, input_data.encode()); os.close(fd); os._exit(0), or
\* BrokenPipeError when the reader is gone and os._exit(1)
HelperWrite ==
    /\ hpc = "write"
    /\ IF HasReader(hfd)
       THEN /\ fifoBuf' = [fifoBuf EXCEPT ![hfd] = @ \o InputData(carg)]
            /\ hpc' = "exit0"
       ELSE /\ hpc' = "exit1"
            /\ UNCHANGED fifoBuf
    /\ CloseWriter(hfd)
    /\ hfd' = 0
    /\ UNCHANGED << rootExists, dir, cmdFile, fifoPath, pidPath, outPath, pidData,
                    logData, procVars, cpc, cid, carg, cpid, ck, polls, nsends, scan,
                    sigs, obsVars >>

\* parent: one iteration of for _ in range(50): os.waitpid(child_pid, os.WNOHANG)
SendPoll ==
    /\ cpc = "send_poll"
    /\ polls < SendPolls
    /\ IF hpc \in { "exit0", "exit1" }
       THEN /\ Done("send", cid, IF hpc = "exit0" THEN "ok" ELSE "err_sendfail")
            /\ acked' = [acked EXCEPT ![cid] = IF hpc = "exit0" THEN Append(@, carg) ELSE @]
            /\ hpc' = "none"
            /\ polls' = 0
       ELSE /\ polls' = polls + 1
            /\ UNCHANGED << hpc, cpc, lastOp, lastId, lastRes, acked >>
    /\ UNCHANGED << fsVars, procVars, cid, carg, cpid, ck, hfd, nsends, scan, sigs,
                    seenExited >>

\* SendTimeout without os.kill(child_pid, SIGKILL): the helper stays
SendTimeoutNoKill ==
    /\ cpc = "send_poll"
    /\ polls = SendPolls
    /\ polls' = 0
    /\ Done("send", cid, "err_timeout")
    /\ UNCHANGED << fsVars, procVars, cid, carg, cpid, ck, hpc, hfd, nsends, scan,
                    sigs, seenExited, acked >>

\* parent, after the loop: os.kill(child_pid, SIGKILL); os.waitpid(child_pid, 0);
\* sys.exit("Error: Timeout sending input (process may have exited)")
SendTimeout ==
    /\ cpc = "send_poll"
    /\ polls = SendPolls
    /\ IF hpc = "write"
       THEN CloseWriter(hfd)
       ELSE UNCHANGED << fifoWriters, fifoHup >>
    /\ hpc' = "none"
    /\ hfd' = 0
    /\ polls' = 0
    /\ Done("send", cid, "err_timeout")
    /\ UNCHANGED << rootExists, dir, cmdFile, fifoPath, pidPath, outPath, pidData,
                    logData, fifoBuf, procVars, cid, carg, cpid, ck, nsends, scan,
                    sigs, seenExited, acked >>

\* cmd_stop: sys.exit("Error: Session ... not found")
StopNotFound(id) ==
    /\ cpc = "idle"
    /\ ~dir[id]
    /\ Done("stop", id, "err_notfound")
    /\ UNCHANGED << fsVars, procVars, cid, carg, cpid, ck, polls, hpc, hfd, nsends,
                    scan, sigs, seenExited, acked >>

\* cmd_stop: the directory exists; the pid file is read and parsed
StopBegin(id) ==
    /\ cpc = "idle"
    /\ dir[id]
    /\ cid' = id
    /\ sigs' = <<>>
    /\ IF ReadPid(id)[1] = "pid"
       THEN /\ cpid' = ReadPid(id)[2]
            /\ cpc' = "stop_term"
       ELSE /\ cpid' = 0
            /\ cpc' = "stop_scan"
    /\ Begin("stop", id)
    /\ UNCHANGED << fsVars, procVars, carg, ck, polls, hpc, hfd, nsends, scan, seenExited, acked >>

\* os.kill(pid, sig) delivered to the daemon with that pid
Signal(pid) ==
    LET k == CHOOSE j \in Procs : PidOf(j) = pid IN Terminate(k, "killed")

\* cmd_stop: os.kill(pid, signal.SIGTERM); ProcessLookupError skips to the cleanup
StopTerm ==
    /\ cpc = "stop_term"
    /\ IF ProcessExists(cpid)
       THEN /\ Signal(cpid)
            /\ sigs' = Append(sigs, "SIGTERM")
            /\ cpc' = "stop_kill"
       ELSE /\ cpc' = "stop_scan"
            /\ UNCHANGED << sigs, dpc, dPid, dOut, dIn, ready >>
    /\ UNCHANGED << fsVars, nstarts, did, child, reaped, produced, ptyOut, ptyIn,
                    cid, carg, cpid, ck, polls, hpc, hfd, nsends, scan, obsVars >>

\* cmd_stop: time.sleep(0.2); os.kill(pid, signal.SIGKILL), ProcessLookupError passed
StopKill ==
    /\ cpc = "stop_kill"
    /\ IF ProcessExists(cpid)
       THEN /\ Signal(cpid)
            /\ sigs' = Append(sigs, "SIGKILL")
       ELSE UNCHANGED << sigs, dpc, dPid, dOut, dIn, ready >>
    /\ cpc' = "stop_scan"
    /\ UNCHANGED << fsVars, nstarts, did, child, reaped, produced, ptyOut, ptyIn,
                    cid, carg, cpid, ck, polls, hpc, hfd, nsends, scan, obsVars >>

\* the entries of a session directory
Entries(id) ==
    (IF cmdFile[id] # NoFile THEN {"cmd"} ELSE {})
    \cup (IF fifoPath[id] # 0 THEN {"input.fifo"} ELSE {})
    \cup (IF pidPath[id] # 0 THEN {"pid"} ELSE {})
    \cup (IF outPath[id] # 0 THEN {"output.txt"} ELSE {})

\* shutil.rmtree: os.scandir of the session directory
StopScan ==
    /\ cpc = "stop_scan"
    /\ scan' = Entries(cid)
    /\ cpc' = "stop_unlink"
    /\ UNCHANGED << fsVars, procVars, cid, carg, cpid, ck, polls, hpc, hfd, nsends,
                    sigs, obsVars >>

\* shutil.rmtree: os.unlink of every entry the scan returned
StopUnlink ==
    /\ cpc = "stop_unlink"
    /\ cmdFile' = [cmdFile EXCEPT ![cid] = IF "cmd" \in scan THEN NoFile ELSE @]
    /\ fifoPath' = [fifoPath EXCEPT ![cid] = IF "input.fifo" \in scan THEN 0 ELSE @]
    /\ pidPath' = [pidPath EXCEPT ![cid] = IF "pid" \in scan THEN 0 ELSE @]
    /\ outPath' = [outPath EXCEPT ![cid] = IF "output.txt" \in scan THEN 0 ELSE @]
    /\ scan' = {}
    /\ cpc' = "stop_rmdir"
    /\ UNCHANGED << rootExists, dir, pidData, logData, fifoBuf, fifoWriters, fifoHup,
                    procVars, cid, carg, cpid, ck, polls, hpc, hfd, nsends, sigs,
                    obsVars >>

\* shutil.rmtree: os.rmdir fails on a directory that is not empty and
\* ignore_errors=True hides it; then print("stopped")
StopRmdir ==
    /\ cpc = "stop_rmdir"
    /\ dir' = [dir EXCEPT ![cid] = Entries(cid) # {}]
    /\ Done("stop", cid, "stopped")
    /\ UNCHANGED << rootExists, cmdFile, fifoPath, pidPath, outPath, pidData, logData,
                    fifoBuf, fifoWriters, fifoHup, procVars, cid, carg, cpid, ck,
                    polls, hpc, hfd, nsends, scan, sigs, seenExited, acked >>

\* ------------------------------------------------------- the specification
\* uuid.uuid4().hex[:8] of a start: no draw repeats an earlier one
Unused(ids) == { i \in ids : \A k \in Procs : did[k] # i }

ClientStep ==
    \/ \E argv \in Argvs : StartNoCommand(argv)
    \/ \E argv \in Argvs, id \in Unused(Uuids) : StartFork(argv, id)
    \/ StartReturn
    \/ \E id \in Ids : Read(id)
    \/ \E id \in Ids : Status(id)
    \/ List
    \/ \E id \in Ids, text \in Texts : SendNotFound(id, text)
    \/ \E id \in Ids, text \in Texts : SendNotRunning(id, text)
    \/ \E id \in Ids, text \in Texts : nsends < MaxSends /\ SendFork(id, text)
    \/ SendPoll
    \/ SendTimeout
    \/ \E id \in Ids : StopNotFound(id)
    \/ \E id \in Ids : StopBegin(id)
    \/ StopTerm
    \/ StopKill
    \/ StopScan
    \/ StopUnlink
    \/ StopRmdir

HelperStep == HelperOpen \/ HelperWrite

\* the daemon beside a terminal whose ECHO flag the target has cleared: the bytes
\* on the master are the target's writes
DaemonStep(k) ==
    \/ DaemonFork(k)
    \/ DaemonOpenPid(k)
    \/ DaemonWritePid(k)
    \/ WrapperFork(k)
    \/ WrapperOpenLog(k)
    \/ WrapperOpenFifo(k)
    \/ BridgeSelect(k)
    \/ BridgeMaster(k)
    \/ BridgeInput(k, FALSE)
    \/ BridgeWait(k)
    \/ DrainPty(k)
    \/ Finalize(k)
    \/ CloseFds(k)
    \/ DaemonExit(k)

ChildStep(k) ==
    \/ \E b \in OutBytes : ChildWrite(k, b)
    \/ ChildExit(k)

Next ==
    \/ ClientStep
    \/ HelperStep
    \/ \E k \in Procs : DaemonStep(k)
    \/ \E k \in Procs : ChildStep(k)

Spec == Init /\ [][Next]_vars

\* start, status, send and stop of one session: what the probes and the helper
\* of a send can meet
ClientSendStep ==
    \/ \E argv \in Argvs, id \in Unused(Uuids) : StartFork(argv, id)
    \/ StartReturn
    \/ \E id \in Ids : Status(id)
    \/ \E id \in Ids, text \in Texts : SendNotFound(id, text)
    \/ \E id \in Ids, text \in Texts : SendNotRunning(id, text)
    \/ \E id \in Ids, text \in Texts : nsends < MaxSends /\ SendFork(id, text)
    \/ SendPoll
    \/ SendTimeout
    \/ \E id \in Ids : StopNotFound(id)
    \/ \E id \in Ids : StopBegin(id)
    \/ StopTerm
    \/ StopKill
    \/ StopScan
    \/ StopUnlink
    \/ StopRmdir

\* the target's output matters to a send only by making master_fd readable:
\* one byte value is enough
ChildSendStep(k) ==
    \/ ChildWrite(k, "a")
    \/ ChildExit(k)

NextSend ==
    \/ ClientSendStep
    \/ HelperStep
    \/ \E k \in Procs : DaemonStep(k)
    \/ \E k \in Procs : ChildSendStep(k)

\* the client keeps running: the poll loop of send is scheduled again after each
\* time.sleep(0.1)
SpecSend == Init /\ [][NextSend]_vars /\ WF_vars(SendPoll) /\ WF_vars(SendTimeout)

\* the bridge left to itself: sessions that are started and sent to but never
\* stopped, with each daemon scheduled fairly; no call of the daemon waits
\* on another process
ClientBridgeStep ==
    \/ \E argv \in Argvs, id \in Unused(Uuids) : StartFork(argv, id)
    \/ StartReturn
    \/ \E id \in Ids, text \in Texts : nsends < MaxSends /\ SendFork(id, text)
    \/ SendPoll
    \/ SendTimeout

NextBridge ==
    \/ ClientBridgeStep
    \/ HelperStep
    \/ \E k \in Procs : DaemonStep(k)
    \/ \E k \in Procs : ChildSendStep(k)

SpecBridge == Init /\ [][NextBridge]_vars /\ \A k \in Procs : WF_vars(DaemonStep(k))

\* the input direction: one session whose target writes nothing, sends one after
\* another with texts that tell them apart, no stop
ClientInputStep ==
    \/ \E argv \in Argvs, id \in Unused(Uuids) : StartFork(argv, id)
    \/ StartReturn
    \/ \E id \in Ids, text \in TextsInput : SendNotRunning(id, text)
    \/ \E id \in Ids, text \in TextsInput :
          nsends < MaxInputSends /\ SendFork(id, text)
    \/ SendPoll
    \/ SendTimeout

\* the daemon beside a terminal whose ECHO flag is set at first and may be
\* cleared and set by the target at any time
DaemonInputStep(k) ==
    \/ DaemonFork(k)
    \/ DaemonOpenPid(k)
    \/ DaemonWritePid(k)
    \/ WrapperFork(k)
    \/ WrapperOpenLog(k)
    \/ WrapperOpenFifo(k)
    \/ BridgeSelect(k)
    \/ BridgeMaster(k)
    \/ \E echo \in BOOLEAN : BridgeInput(k, echo)
    \/ BridgeWait(k)
    \/ DrainPty(k)
    \/ Finalize(k)
    \/ CloseFds(k)
    \/ DaemonExit(k)

NextInput ==
    \/ ClientInputStep
    \/ HelperStep
    \/ \E k \in Procs : DaemonInputStep(k)
    \/ \E k \in Procs : ChildExit(k)

SpecInput == Init /\ [][NextInput]_vars

\* the output direction: one session whose target writes ASCII and multi-byte
\* text, reads of the log, no send and no stop
ClientOutputStep ==
    \/ \E argv \in Argvs, id \in Unused(Uuids) : StartFork(argv, id)
    \/ StartReturn
    \/ \E id \in Ids : Read(id)

ChildOutputStep(k) ==
    \/ \E b \in OutBytesOutput : ChildWrite(k, b)
    \/ ChildExit(k)

DaemonOutputStep(k) ==
    \/ DaemonFork(k)
    \/ DaemonOpenPid(k)
    \/ DaemonWritePid(k)
    \/ WrapperFork(k)
    \/ WrapperOpenLog(k)
    \/ WrapperOpenFifo(k)
    \/ BridgeSelect(k)
    \/ BridgeMaster(k)
    \/ BridgeWait(k)
    \/ DrainPty(k)
    \/ Finalize(k)
    \/ CloseFds(k)
    \/ DaemonExit(k)

NextOutput ==
    \/ ClientOutputStep
    \/ \E k \in Procs : DaemonOutputStep(k)
    \/ \E k \in Procs : ChildOutputStep(k)

SpecOutput == Init /\ [][NextOutput]_vars

\* starts whose uuid4 prefix may repeat an id in use, beside stop: a start can
\* meet a directory with its FIFO, or one that a stop left behind without it
ClientCollideStep ==
    \/ \E argv \in ArgvsCollide, id \in Uuids : StartFork(argv, id)
    \/ \E argv \in ArgvsCollide, id \in Uuids : StartCollide(argv, id)
    \/ StartReturn
    \/ \E id \in Uuids : StopBegin(id)
    \/ StopTerm
    \/ StopKill
    \/ StopScan
    \/ StopUnlink
    \/ StopRmdir

NextCollide ==
    \/ ClientCollideStep
    \/ \E k \in Procs : DaemonOutputStep(k)
    \/ \E k \in Procs : ChildExit(k)

SpecCollide == Init /\ [][NextCollide]_vars

\* two sessions side by side, with the operations that change what list and
\* status report: no target output, no send, no read
ClientListStep ==
    \/ \E argv \in Argvs, id \in Unused(UuidsList) : StartFork(argv, id)
    \/ StartReturn
    \/ List
    \/ \E id \in Ids : StopNotFound(id)
    \/ \E id \in Ids : StopBegin(id)
    \/ StopTerm
    \/ StopKill
    \/ StopScan
    \/ StopUnlink
    \/ StopRmdir

DaemonListStep(k) ==
    \/ DaemonFork(k)
    \/ DaemonOpenPid(k)
    \/ DaemonWritePid(k)
    \/ WrapperFork(k)
    \/ WrapperOpenLog(k)
    \/ WrapperOpenFifo(k)
    \/ BridgeSelect(k)
    \/ BridgeMaster(k)
    \/ BridgeWait(k)
    \/ DrainPty(k)
    \/ Finalize(k)
    \/ CloseFds(k)
    \/ DaemonExit(k)

NextList ==
    \/ ClientListStep
    \/ \E k \in Procs : DaemonListStep(k)
    \/ \E k \in Procs : ChildExit(k)

SpecList == Init /\ [][NextList]_vars

\* ------------------------------------------------------------ the claims
\* the daemon that serves session id
DaemonOf(id) == CHOOSE k \in Procs : did[k] = id

Started(id) == \E k \in Procs : did[k] = id

\* C1 (as stated): a stop of an id right after a stop of the same id that
\* printed "stopped" never takes the not-found exit: it prints "stopped" too.
C1_StopTwiceStopped ==
    [][ \A id \in Ids :
          (lastOp = "stop" /\ lastId = id /\ lastRes = "stopped")
          => ~StopNotFound(id) ]_vars

\* C2 (as stated): once a status of an id has printed "exited", no later status
\* of that id prints "running".
C2_StatusNeverRegresses ==
    ~(lastOp = "status" /\ lastRes = "running" /\ seenExited[lastId])

\* C3: what read prints only grows. The log at a session's path is the file its
\* own daemon created, every log file's content is extended at its end by every
\* step (so of two reads of a session the earlier prints a prefix of the later),
\* and only the bridge's appends (loop, drain, exit marker) change a log.
C3_ReadsArePrefixes ==
    [][ /\ \A id \in Ids : outPath[id] # 0 => did[outPath[id]] = id
        /\ \A k \in Procs : IsPrefix(logData[k], logData'[k])
        /\ logData' # logData =>
              \E k \in Procs : BridgeMaster(k) \/ DrainPty(k) \/ Finalize(k) ]_vars

\* a read printed a log that had been appended to at least twice
C3_Witness ==
    /\ lastOp = "read" /\ lastRes = "ok"
    /\ ReadContent(lastId) # NoFile
    /\ Len(ReadContent(lastId)[1]) > Len(ExitMarker) + 1

\* the step that ends a send of session id
SendEnds(id) ==
    \/ cid = id /\ SendTimeout
    \/ cid = id /\ SendPoll /\ cpc' = "idle"
    \/ \E text \in Texts : SendNotRunning(id, text)

\* the owner process of the session is gone, its directory is still there
OwnerExited(id) ==
    /\ dir[id] /\ Started(id)
    /\ dpc[DaemonOf(id)] \in { "done", "crashed", "killed" }

\* C4 (as stated): a send to a session whose owner has exited before the helper
\* could open the channel, also after the liveness probe, ends with the
\* not-running error, never with the timeout.
C4_ExitedNeverTimesOut ==
    [][ \A id \in Ids :
          (SendEnds(id) /\ OwnerExited(id) /\ hpc \in { "none", "open" })
          => lastRes' = "err_notrunning" ]_vars

\* C4 (amended): a send that begins when status would print "exited" (no pid
\* recorded, an unparsable pid file, or no process under the recorded pid) ends
\* at once with the not-running error and forks no helper, so it cannot time out.
C4_ProbeFailsNotRunning ==
    [][ \A id \in Ids, text \in Texts :
          (/\ StatusOf(id) = "exited"
           /\ SendNotFound(id, text) \/ SendNotRunning(id, text) \/ SendFork(id, text))
          => /\ lastRes' = "err_notrunning"
             /\ cpc' = "idle"
             /\ hpc' = "none" ]_vars

\* a send to a session whose daemon has finalized and exited was refused
C4_Witness ==
    /\ lastOp = "send" /\ lastRes = "err_notrunning"
    /\ OwnerExited(lastId)
    /\ pidPath[lastId] # 0

\* C5: every send ends, after at most 50 polls, with ok, the send failure or the
\* timeout, also when the helper's open never returns; after it no helper is alive
\* and no write end of a FIFO is open.
C5_SendTerminates ==
    /\ [](polls <= SendPolls)
    /\ [](cpc # "send_poll" => hpc = "none" /\ \A k \in Procs : fifoWriters[k] = 0)
    /\ [](lastOp = "send" =>
            lastRes \in { "pending", "ok", "err_sendfail", "err_timeout",
                          "err_notfound", "err_notrunning" })
    /\ (cpc = "send_poll") ~> (cpc = "idle" /\ lastOp = "send" /\ lastRes # "pending")

\* a send timed out with its helper still blocked in open
C5_Witness ==
    /\ lastOp = "send" /\ lastRes = "err_timeout"
    /\ hpc = "none"
    /\ OwnerExited(lastId)

\* C6: list prints exactly one row per existing session directory, and the
\* status of each row is what status prints for that id in the same state.
C6_ListMatchesStatus ==
    /\ { r[1] : r \in ListRows } = { i \in Ids : dir[i] }
    /\ Cardinality(ListRows) = Cardinality({ i \in Ids : dir[i] })
    /\ \A r \in ListRows : r[2] = StatusOf(r[1])

\* a list printed two rows, one running and one exited
C6_Witness ==
    /\ lastOp = "list" /\ lastRes = "ok"
    /\ \E r1, r2 \in ListRows :
          /\ r1[2] = "running" /\ r2[2] = "exited"
          /\ pidPath[r2[1]] # 0

\* C7 (as stated): once start has printed the session id, read succeeds and, for
\* a target that has not exited, status prints "running".
C7_ReadyOnReturn ==
    (lastOp = "start" /\ lastRes = "session")
    => /\ ReadContent(lastId) # NoFile
       /\ child[ck] # "exited" => StatusOf(lastId) = "running"

\* C8 (as stated): a stop of an existing directory signals SIGTERM before SIGKILL,
\* and when it has printed "stopped" the directory is gone and status prints
\* "not_found".
C8_StopRemovesDirectory ==
    /\ sigs \in { <<>>, << "SIGTERM" >>, << "SIGTERM", "SIGKILL" >> }
    /\ (lastOp = "stop" /\ lastRes = "stopped")
       => ~dir[lastId] /\ StatusOf(lastId) = "not_found"

\* C9: a start with no command, and a read, send or stop of an id without a
\* directory, fail and change nothing: no file, directory or process is created,
\* no process is signalled, no helper is forked.
C9_FailuresChangeNothing ==
    [][ /\ \A argv \in Argvs :
              (/\ StripDashes(argv) = <<>>
               /\ StartNoCommand(argv) \/ \E id \in Ids : StartFork(argv, id))
              => /\ lastRes' = "err_nocmd"
                 /\ UNCHANGED << fsVars, procVars, hpc, nsends >>
        /\ \A id \in Ids :
              (/\ ~dir[id]
               /\ \/ Read(id)
                  \/ StopNotFound(id) \/ StopBegin(id)
                  \/ \E text \in Texts :
                        SendNotFound(id, text) \/ SendNotRunning(id, text)
                        \/ SendFork(id, text))
              => /\ lastRes' = "err_notfound"
                 /\ cpc' = "idle"
                 /\ UNCHANGED << fsVars, procVars, hpc, nsends >> ]_vars

\* a start without a command failed beside a live session
C9_Witness ==
    /\ lastOp = "start" /\ lastRes = "err_nocmd"
    /\ \E id \in Ids : dir[id] /\ StatusOf(id) = "running"

\* no stop has removed the files of session id: the FIFO start made is there
NotRemoved(id) == fifoPath[id] # 0

\* C10: only stop removes a session directory or an entry of it; after the
\* daemon has written the exit marker and terminated, and until a stop removes
\* it, the directory and the log stay, no step changes the log, status prints
\* "exited" and read prints the log, which ends with the exit marker.
C10_NoAutoRemoval ==
    [][ /\ \A id \in Ids :
              /\ dir[id] /\ ~dir'[id] => cid = id /\ StopRmdir
              /\ Entries(id)' # Entries(id) /\ Entries(id)' \subseteq Entries(id)
                    => cid = id /\ StopUnlink
        /\ \A k \in Procs :
              (dpc[k] = "done" /\ NotRemoved(did[k]))
              => /\ dir[did[k]] /\ outPath[did[k]] = k
                 /\ StatusOf(did[k]) = "exited"
                 /\ ReadContent(did[k]) = File(logData[k])
                 /\ Len(logData[k]) >= Len(ExitMarker)
                 /\ SubSeq(logData[k], Len(logData[k]) - Len(ExitMarker) + 1,
                           Len(logData[k])) = ExitMarker
                 /\ logData'[k] = logData[k] ]_vars

\* the daemon is gone after a natural exit and a read printed its whole log
C10_Witness ==
    /\ lastOp = "read" /\ lastRes = "ok"
    /\ Started(lastId)
    /\ dpc[DaemonOf(lastId)] = "done"
    /\ NotRemoved(lastId)
    /\ Len(logData[DaemonOf(lastId)]) > Len(ExitMarker)

\* positions of the daemon inside the while loop of run_wrapper (and drain_pty)
InLoop(k) == dpc[k] \in { "select", "master", "input", "wait", "drain" }

\* how often the exit marker's line occurs in log inode k
MarkerCount(k) ==
    Cardinality({ i \in 1..Len(logData[k]) : logData[k][i] = ExitMarker[2] })

EndsWithMarker(log) ==
    /\ Len(log) >= Len(ExitMarker)
    /\ SubSeq(log, Len(log) - Len(ExitMarker) + 1, Len(log)) = ExitMarker

OwnerAnswers(id) ==
    /\ pidPath[id] # 0
    /\ \E k \in Procs : DaemonAlive(k) /\ pidData[pidPath[id]] = Str(PidOf(k))

\* the class of a session id, from the state of the store and the processes
ClassOf(id) ==
    IF ~dir[id] THEN "not_found"
    ELSE IF OwnerAnswers(id) THEN "running"
    ELSE "exited"

\* C12: status prints not_found iff the directory is absent, running iff the
\* directory exists and the recorded pid answers the probe, exited otherwise, and
\* never fails; a send fails with the not-found error exactly when the class is
\* not_found, with the not-running error exactly when it is exited, and goes on
\* to fork its helper exactly when it is running.
C12_ClassificationConsistent ==
    /\ [][ \A id \in Ids :
              /\ Status(id) => lastRes' = ClassOf(id) /\ cpc' = "idle"
              /\ \A text \in Texts :
                    /\ SendNotFound(id, text)
                          => ClassOf(id) = "not_found" /\ lastRes' = "err_notfound"
                    /\ SendNotRunning(id, text)
                          => ClassOf(id) = "exited" /\ lastRes' = "err_notrunning"
                    /\ SendFork(id, text)
                          => ClassOf(id) = "running" /\ lastRes' = "pending" ]_vars
    /\ [](cpc = "idle" =>
            \A id \in Ids, text \in Texts :
                /\ ENABLED Status(id)
                /\ ClassOf(id) = "not_found" => ENABLED SendNotFound(id, text)
                /\ ClassOf(id) = "exited" => ENABLED SendNotRunning(id, text))

\* a send was refused as not running because the pid file was there but empty
C12_Witness ==
    /\ lastOp = "send" /\ lastRes = "err_notrunning"
    /\ dir[lastId]
    /\ pidPath[lastId] # 0 /\ pidData[pidPath[lastId]] = <<>>

\* C13: a step of the loop on the input channel (data forwarded, a zero-length
\* read, an error of the read or of the forward) leaves the daemon in the loop
\* with the same in_fd; inside the loop in_fd never changes; the loop is left
\* only by a read of master_fd that returns nothing or fails, or by the drain that
\* follows the reaping of the target (or by a signal).
C13_InputNeverEndsLoop ==
    [][ \A k \in Procs :
          /\ dpc[k] = "input" /\ dpc'[k] # "input"
                => dpc'[k] \in { "wait", "killed" }
          /\ InLoop(k) /\ InLoop(k)' => dIn[k] # 0 /\ dIn'[k] = dIn[k]
          /\ InLoop(k) /\ dpc'[k] = "finally"
                => \/ dpc[k] = "master" /\ ptyOut[k] = <<>> /\ child[k] = "exited"
                   \/ dpc[k] = "drain" /\ reaped[k] ]_vars

\* a send was acknowledged, the daemon read its bytes from the channel after the
\* target had gone, the forward failed, the writer has left, and the daemon is
\* still in the loop
C13_Witness ==
    \E k \in Procs :
        /\ dpc[k] = "wait" /\ dIn[k] # 0
        /\ child[k] = "exited"
        /\ acked[did[k]] # <<>>
        /\ fifoBuf[dIn[k]] = <<>> /\ ptyIn[k] = <<>>
        /\ fifoHup[dIn[k]] /\ fifoWriters[dIn[k]] = 0

\* each text followed by one newline, in order
RECURSIVE Keystrokes(_)
Keystrokes(texts) ==
    IF texts = <<>> THEN <<>>
    ELSE << Head(texts), "\n" >> \o Keystrokes(Tail(texts))

\* the bridge loop of daemon k has been alive so far and the target reads its
\* terminal
LoopAlive(k) ==
    /\ dpc[k] \in { "openfifo", "select", "master", "input", "wait" }
    /\ child[k] = "running"

\* C15: while the loop is alive and every completed send has printed ok, what
\* the bridge has written to master_fd followed by what waits in the channel is
\* exactly the texts of these sends (and of the one whose helper has just
\* written), each followed by one newline, in send order: nothing is lost,
\* doubled, reordered or added.
C15_InputInSendOrder ==
    \A k \in Procs :
        LET id == did[k]
            written == IF hpc = "exit0" /\ cid = id THEN << carg >> ELSE <<>>
        IN  id # NoId =>
            /\ (LoopAlive(k) /\ nsends = Len(acked[id]) /\ cpc = "idle")
                  => /\ ptyIn[k] \o fifoBuf[fifoPath[id]] = Keystrokes(acked[id])
                     /\ hpc = "none"
            /\ (LoopAlive(k) /\ nsends = Len(acked[id]) + 1 /\ cpc = "send_poll")
                  => ptyIn[k] \o fifoBuf[fifoPath[id]] = Keystrokes(acked[id] \o written)

\* two sends with different texts printed ok and the bridge has forwarded both
C15_Witness ==
    \E k \in Procs :
        /\ LoopAlive(k)
        /\ acked[did[k]] = << "n", "y" >>
        /\ ptyIn[k] = << "n", "\n", "y", "\n" >>
        /\ fifoBuf[dIn[k]] = <<>>
        /\ cpc = "idle"

\* the content of log inode k before the exit marker
LogBody(k) ==
    IF EndsWithMarker(logData[k])
    THEN SubSeq(logData[k], 1, Len(logData[k]) - Len(ExitMarker))
    ELSE logData[k]

\* C14 (as stated): the log before the exit marker is a prefix of the text of what
\* the target has written, in order, and after a finalization that followed the
\* reaping of the target the log is that whole text and the marker.
C14_LogIsOutputStream ==
    \A k \in Procs :
        /\ IsPrefix(LogBody(k), Decode(produced[k]))
        /\ (dpc[k] \in { "closing", "exiting", "done" } /\ reaped[k])
              => logData[k] = Decode(produced[k]) \o ExitMarker

\* the values of a sequence
Range(seq) == { seq[i] : i \in 1..Len(seq) }

Unstopped(id) ==
    /\ fifoPath[id] # 0
    /\ ~(cid = id /\ cpc \in { "stop_term", "stop_kill", "stop_scan", "stop_unlink",
                                "stop_rmdir" })

\* C17: for a session no stop has touched and whose pid file holds a pid, that
\* pid is its daemon's; while the log does not end with the exit marker the
\* daemon is alive; and when the daemon is not alive, status prints exited, the
\* log is at its path and read prints it with the marker at its end.
C17_OwnerAliveUntilFinalized ==
    \A id \in Ids :
        (Started(id) /\ Unstopped(id) /\ ReadPid(id)[1] = "pid")
        => LET k == DaemonOf(id) IN
           /\ ReadPid(id)[2] = PidOf(k)
           /\ ~EndsWithMarker(logData[k]) => ProcessExists(PidOf(k))
           /\ ~ProcessExists(PidOf(k))
                 => /\ StatusOf(id) = "exited"
                    /\ outPath[id] = k
                    /\ ReadContent(id) # NoFile
                    /\ EndsWithMarker(ReadContent(id)[1])

\* status printed exited for a session with a recorded pid that no stop has
\* touched, after the target wrote output
C17_Witness ==
    /\ lastOp = "status" /\ lastRes = "exited"
    /\ Started(lastId) /\ Unstopped(lastId)
    /\ ReadPid(lastId)[1] = "pid"
    /\ Len(logData[DaemonOf(lastId)]) > Len(ExitMarker)

\* C18: under fair scheduling of the daemon, once the target has exited the
\* daemon eventually has appended the exit marker and terminated, and status of
\* the session prints exited, whether or not a send ever opens the FIFO.
C18_BridgeFinishes ==
    \A k \in Procs :
        (child[k] = "exited")
        ~> (/\ dpc[k] = "done"
            /\ EndsWithMarker(logData[k])
            /\ StatusOf(did[k]) = "exited")

\* a daemon has finished after its target exited, no send was ever made, and
\* status of its session prints exited
C18_Witness ==
    /\ nsends = 0
    /\ \E k \in Procs : /\ child[k] = "exited"
                         /\ dpc[k] = "done"
                         /\ EndsWithMarker(logData[k])
                         /\ StatusOf(did[k]) = "exited"

\* C19: after a stop of a session has printed stopped, no daemon of that
\* session is alive, whatever point of start's daemonization the stop met.
C19_StopLeavesNoDaemon ==
    (cpc = "idle" /\ lastOp = "stop" /\ lastRes = "stopped")
    => \A k \in Procs : did[k] = lastId => ~DaemonAlive(k)

\* C20: a start that draws the id of an existing session directory fails,
\* launches no daemon, and leaves the directory's command record, pid file,
\* FIFO and output log as they were.
C20_CollidingStartChangesNothing ==
    [][ \A argv \in ArgvsCollide, id \in Ids :
            (dir[id] /\ (StartFork(argv, id) \/ StartCollide(argv, id)))
            => /\ lastRes' = "crash"
               /\ UNCHANGED << nstarts, dpc, did >>
               /\ UNCHANGED << cmdFile, pidPath, pidData, fifoPath, fifoBuf, outPath,
                               logData >> ]_vars

====
